---- MODULE Spec2Model ----
(***************************************************************************)
(* Model of scripts/exp/release.ts: the release workflow of the firebase   *)
(* "exp" packages (build, plan versions, rewrite package.json files,       *)
(* publish to npm, reset the working tree, commit and push).               *)
(*                                                                         *)
(* Strings are modelled by what the code does with them:                   *)
(*  - a package name or a path is a sequence of tokens, chosen so that the *)
(*    substrings the code looks for ("firebase", "-exp") are whole tokens; *)
(*  - a version string is a record [kind, core, pre]: core is the          *)
(*    <<major, minor, patch>> triple (<<>> when the text is not a semantic *)
(*    version) and pre the dot-separated prerelease identifiers;           *)
(*  - a JavaScript object (dependencies, the versions Map) is a sequence   *)
(*    of [k, v] entries in insertion order with unique keys.               *)
(***************************************************************************)
EXTENDS Integers, Sequences, FiniteSets, TLC

\* Largest number of package directories matched by packages-exp/*.
MaxPkgs == 3

----------------------------------------------------------------------------
(* Strings *)

\* src/scripts/exp/release.ts:46
FIREBASE_UMBRELLA_PACKAGE_NAME == <<"firebase", "-exp">>

\* The tokens whose text contains the word "firebase".
FirebaseTokens == {"firebase", "@firebase/"}

\* The text "-exp" of the regular expression and of the version template.
ExpSuffix == "-exp"

Max(S) == CHOOSE x \in S : \A y \in S : y <= x

RemoveAt(s, k) == [i \in 1..(Len(s) - 1) |-> IF i < k THEN s[i] ELSE s[i + 1]]

Front(s) == SubSeq(s, 1, Len(s) - 1)

\* String.prototype.includes on token sequences: sub occurs contiguously in s.
Includes(s, sub) ==
  \E i \in 0..(Len(s) - Len(sub)) : SubSeq(s, i + 1, i + Len(sub)) = sub

\* A faulty removeExpInPackageName: the pattern without the word firebase.
removeExpAnywhere(name) ==
  LET exps == {i \in DOMAIN name : name[i] = ExpSuffix}
  IN  IF exps = {} THEN name ELSE RemoveAt(name, Max(exps))

\* A faulty removeExpInPackageName: the pattern drops any last hyphenated
\* suffix after the word firebase, not only -exp.
removeAnySuffix(name) ==
  LET sufs == {i \in DOMAIN name : name[i] \in {ExpSuffix, "-compat"}}
  IN  IF sufs = {} THEN name
      ELSE LET k == Max(sufs)
           IN  IF \E j \in 1..(k - 1) : name[j] \in FirebaseTokens
               THEN RemoveAt(name, k)
               ELSE name

\* removeExpInPackageName: /^(.*firebase.*)-exp(.*)$/ . Both .* are greedy, so
\* the "-exp" that is dropped is the last one, and it is dropped only when
\* the word firebase occurs somewhere before it.
removeExpInPackageName(name) ==
  LET exps == {i \in DOMAIN name : name[i] = ExpSuffix}
  IN  IF exps = {} THEN name
      ELSE LET k == Max(exps)
           IN  IF \E j \in 1..(k - 1) : name[j] \in FirebaseTokens
               THEN RemoveAt(name, k)
               ELSE name

----------------------------------------------------------------------------
(* Versions (the semver package) *)

\* A prerelease identifier: numeric (compared as a number) or not (compared
\* as text, a sequence of character codes).
NumId(n) == [num |-> TRUE, n |-> n, s |-> <<>>]
TextId(s) == [num |-> FALSE, n |-> 0, s |-> s]

ExpId == <<101, 120, 112>>                \* "exp"
BetaId == <<98, 101, 116, 97>>            \* "beta"
Hyphen == <<45>>                          \* "-"

RECURSIVE Digits(_)
Digits(n) == IF n < 10 THEN <<48 + n>> ELSE Digits(n \div 10) \o <<48 + (n % 10)>>

IdText(id) == IF id.num THEN Digits(id.n) ELSE id.s

Version(a, b, c) == [kind |-> "version", core |-> <<a, b, c>>, pre |-> <<>>]
PreVersion(a, b, c, pre) == [kind |-> "version", core |-> <<a, b, c>>, pre |-> pre]
\* A version text that is not a semantic version (for example "next").
NotSemver == [kind |-> "version", core |-> <<>>, pre |-> <<>>]
\* A declared dependency range such as ^0.5.0: opaque to the code.
Range(a, b, c) == [kind |-> "range", core |-> <<a, b, c>>, pre |-> <<>>]
Null == [kind |-> "null", core |-> <<>>, pre |-> <<>>]
Undefined == [kind |-> "undefined", core |-> <<>>, pre |-> <<>>]

\* A prerelease identifier semver accepts: a number without leading zero, or
\* a text with at least one character that is not a digit.
ValidId(id) == id.num \/ \E i \in DOMAIN id.s : id.s[i] \notin 48..57

\* semver's parse succeeds.
Valid(v) ==
  /\ v.kind = "version"
  /\ Len(v.core) = 3
  /\ \A i \in DOMAIN v.pre : ValidId(v.pre[i])

\* JavaScript truthiness of a value of the versions Map.
Truthy(v) == v.kind \notin {"null", "undefined"}

\* A faulty inc: bumps the minor component.
incMinor(v) ==
  IF ~Valid(v) THEN Null
  ELSE IF v.pre = <<>>
       THEN [v EXCEPT !.core = <<v.core[1], v.core[2] + 1, 0>>]
       ELSE [v EXCEPT !.pre = <<>>]

\* semver inc(version, 'patch'): null when the version does not parse; a
\* prerelease version is bumped to its own major.minor.patch; otherwise the
\* patch component is incremented.
inc(v) ==
  IF ~Valid(v) THEN Null
  ELSE IF v.pre = <<>>
       THEN [v EXCEPT !.core = <<v.core[1], v.core[2], v.core[3] + 1>>]
       ELSE [v EXCEPT !.pre = <<>>]

\* A faulty version template: the current version unchanged.
sameVersion(v, sha) == v

\* `${version}-exp.${sha}`: the text "-exp." and the sha appended to the
\* version text; after an existing prerelease the "-exp" extends its last
\* identifier.
expVersion(v, sha) ==
  IF v.pre = <<>>
  THEN [v EXCEPT !.pre = <<TextId(ExpId), sha>>]
  ELSE [v EXCEPT !.pre = Front(v.pre)
                   \o <<TextId(IdText(v.pre[Len(v.pre)]) \o Hyphen \o ExpId), sha>>]

\* Text order of two character sequences (JavaScript a < b).
RECURSIVE TextLt(_, _)
TextLt(a, b) ==
  IF b = <<>> THEN FALSE
  ELSE IF a = <<>> THEN TRUE
  ELSE IF a[1] # b[1] THEN a[1] < b[1]
  ELSE TextLt(Tail(a), Tail(b))

\* semver compareIdentifiers(a, b) < 0.
IdLt(a, b) ==
  IF a.num /\ b.num THEN a.n < b.n
  ELSE IF a.num /\ ~b.num THEN TRUE
  ELSE IF b.num /\ ~a.num THEN FALSE
  ELSE TextLt(a.s, b.s)

\* semver comparePre(a, b) < 0.
RECURSIVE PreLt(_, _)
PreLt(a, b) ==
  IF a # <<>> /\ b = <<>> THEN TRUE
  ELSE IF a = <<>> THEN FALSE
  ELSE IF a[1] = b[1] THEN
         IF Len(a) = 1 THEN Len(b) > 1
         ELSE IF Len(b) = 1 THEN FALSE
         ELSE PreLt(Tail(a), Tail(b))
  ELSE IdLt(a[1], b[1])

\* semver lt(a, b) for two parseable versions.
VersionLt(a, b) ==
  LET i == CHOOSE j \in 1..4 : j = 4 \/ a.core[j] # b.core[j]
  IN  IF i < 4 THEN a.core[i] < b.core[i] ELSE PreLt(a.pre, b.pre)

----------------------------------------------------------------------------
(* JavaScript objects and Maps *)

Keys(obj) == {obj[i].k : i \in DOMAIN obj}

\* obj[k], Map.get(k): undefined when the key is missing.
Get(obj, k) ==
  IF k \in Keys(obj)
  THEN obj[CHOOSE i \in DOMAIN obj : obj[i].k = k].v
  ELSE Undefined

\* obj[k] = v, Map.set(k, v): an existing key keeps its place.
Set(obj, k, v) ==
  IF k \in Keys(obj)
  THEN [i \in DOMAIN obj |-> IF obj[i].k = k THEN [k |-> k, v |-> v] ELSE obj[i]]
  ELSE Append(obj, [k |-> k, v |-> v])

----------------------------------------------------------------------------
(* Package descriptors (package.json) and the packages of the repository *)

Pkg(name, version, private, deps, peers, devs) ==
  [name |-> name, version |-> version, private |-> private,
   dependencies |-> deps, peerDependencies |-> peers, devDependencies |-> devs]

E(k, v) == [k |-> k, v |-> v]

AppCompat == <<"@firebase/", "app", "-compat">>
AppExp == <<"@firebase/", "app", ExpSuffix>>
App == <<"@firebase/", "app">>
Util == <<"@firebase/", "util">>
Firestore == <<"@firebase/", "firestore">>
XA == <<"@x/", "a", ExpSuffix>>
XB == <<"@x/", "b", ExpSuffix>>
Typescript == <<"typescript">>

\* The package directories packages-exp/* can hold, in glob order: the
\* directory, the committed descriptor, and the versions it may be at.
PackagesExp == <<
  [rel |-> <<"packages-exp/", "app", "-compat">>,
   versions |-> {Version(0, 0, 900)},
   pkg |-> Pkg(AppCompat, Undefined, TRUE,
               <<E(App, Range(0, 6, 0)), E(AppExp, Range(0, 0, 900))>>,
               <<E(AppExp, Range(0, 0, 0))>>,
               <<E(AppExp, Range(0, 0, 900)), E(Typescript, Range(4, 0, 2))>>)],
  [rel |-> <<"packages-exp/", "app", ExpSuffix>>,
   versions |-> {Version(0, 0, 900), PreVersion(0, 0, 900, <<TextId(BetaId)>>)},
   pkg |-> Pkg(AppExp, Undefined, TRUE,
               <<E(Util, Range(0, 3, 0))>>,
               <<>>,
               <<E(Typescript, Range(4, 0, 2))>>)],
  [rel |-> <<"packages-exp/", "firebase", ExpSuffix>>,
   versions |-> {Version(1, 2, 3), PreVersion(1, 2, 3, <<TextId(BetaId), NumId(1)>>),
                 NotSemver},
   pkg |-> Pkg(FIREBASE_UMBRELLA_PACKAGE_NAME, Undefined, TRUE,
               <<E(AppExp, Range(0, 0, 900)), E(Firestore, Range(2, 0, 0))>>,
               <<>>,
               <<E(Typescript, Range(4, 0, 2))>>)],
  [rel |-> <<"packages-exp/", "x-a">>,
   versions |-> {Version(0, 5, 0)},
   pkg |-> Pkg(XA, Undefined, TRUE,
               <<E(XB, Range(0, 5, 0))>>,
               <<E(FIREBASE_UMBRELLA_PACKAGE_NAME, Range(1, 0, 0))>>,
               <<E(XB, Range(0, 5, 0))>>)],
  [rel |-> <<"packages-exp/", "x-b">>,
   versions |-> {Version(0, 5, 0), NotSemver},
   pkg |-> Pkg(XB, Undefined, TRUE, <<>>, <<>>, <<>>)]
>>

\* packages/firestore, always part of the release.
FirestoreDir ==
  [rel |-> <<"packages/", "firestore">>,
   versions |-> {Version(2, 0, 0)},
   pkg |-> Pkg(Firestore, Undefined, FALSE,
               <<E(Util, Range(0, 3, 0))>>,
               <<E(AppExp, Range(0, 0, 0))>>,
               <<E(AppExp, Range(0, 0, 900))>>)]

\* Where the repository may be checked out.
ProjectRoots == {<<"/repo/">>, <<"/work/", "firebase", ExpSuffix, "/">>}

\* What git rev-parse --short HEAD may print: "abcdef", "1234567", "0123456".
ShortShas == {TextId(<<97, 98, 99, 100, 101, 102>>), NumId(1234567),
              TextId(<<48, 49, 50, 51, 52, 53, 54>>)}

----------------------------------------------------------------------------
(* The Version Planner and the Name/Version Rewriter *)

\* The first loop of updatePackageNamesAndVersions: the next version of every
\* package of packagePaths[i..], added to the Map versions.
RECURSIVE planVersions(_, _, _, _, _)
planVersions(files, paths, i, sha, versions) ==
  IF i > Len(paths) THEN versions
  ELSE LET json == files[paths[i]]
           nextVersion == IF json.name = FIREBASE_UMBRELLA_PACKAGE_NAME
                          THEN inc(json.version)
                          ELSE expVersion(json.version, sha)
       IN  planVersions(files, paths, i + 1, sha, Set(versions, json.name, nextVersion))

\* The loop over Object.keys(dependencies) of updatePackageJsons: the entries
\* deps[i..] written into newDependenciesObj under their names without -exp.
RECURSIVE updateDependencies(_, _, _, _)
updateDependencies(deps, i, versions, newDependenciesObj) ==
  IF i > Len(deps) THEN newDependenciesObj
  ELSE LET d == deps[i].k
           dNextVersion == Get(versions, d)
           nameWithoutExp == removeExpInPackageName(d)
       IN  updateDependencies(deps, i + 1, versions,
             Set(newDependenciesObj, nameWithoutExp,
                 IF ~Truthy(dNextVersion) THEN deps[i].v ELSE dNextVersion))

\* A faulty updatePackageJsons: devDependencies are rewritten like the other
\* dependency maps.
updatePackageJsonWithDev(json, versions, removeExpInName, updateVersions, makePublic) ==
  LET versioned == IF updateVersions
                   THEN [json EXCEPT !.version = Get(versions, json.name)]
                   ELSE json
      renamed == IF removeExpInName
                 THEN [versioned EXCEPT
                         !.name = removeExpInPackageName(json.name),
                         !.dependencies =
                            updateDependencies(json.dependencies, 1, versions, <<>>),
                         !.peerDependencies =
                            updateDependencies(json.peerDependencies, 1, versions, <<>>),
                         !.devDependencies =
                            updateDependencies(json.devDependencies, 1, versions, <<>>)]
                 ELSE versioned
  IN  IF makePublic THEN [renamed EXCEPT !.private = FALSE] ELSE renamed

\* The body of the loop of updatePackageJsons: the package.json written for
\* one package.
updatePackageJson(json, versions, removeExpInName, updateVersions, makePublic) ==
  LET versioned == IF updateVersions
                   THEN [json EXCEPT !.version = Get(versions, json.name)]
                   ELSE json
      renamed == IF removeExpInName
                 THEN [versioned EXCEPT
                         !.name = removeExpInPackageName(json.name),
                         !.dependencies =
                            updateDependencies(json.dependencies, 1, versions, <<>>),
                         !.peerDependencies =
                            updateDependencies(json.peerDependencies, 1, versions, <<>>)]
                 ELSE versioned
  IN  IF makePublic THEN [renamed EXCEPT !.private = FALSE] ELSE renamed

Elements(seq) == {seq[i] : i \in DOMAIN seq}

\* updatePackageJsons: every package.json of packagePaths rewritten in place.
updatePackageJsons(files, packagePaths, versions, removeExpInName, updateVersions, makePublic) ==
  [p \in DOMAIN files |->
     IF p \in Elements(packagePaths)
     THEN updatePackageJson(files[p], versions, removeExpInName, updateVersions, makePublic)
     ELSE files[p]]

\* publishPackage: the npm command line run in packagePath.
publishPackage(packagePath, dry) ==
  [cwd |-> packagePath,
   args |-> <<"publish", "--access", "public", "--tag", "exp">>
            \o (IF dry THEN <<"--dry-run">> ELSE <<>>)]

----------------------------------------------------------------------------
(* The release workflow: publishExpPackages *)

VARIABLES
  pc,                \* where publishExpPackages is, or how it ended
  exitCode,          \* the exit code of the process, -1 while it runs
  dryRun,            \* argv.dryRun
  projectRoot,       \* where the repository is checked out
  sha,               \* git rev-parse --short HEAD
  installationsDist, \* packages/installations/dist exists
  head,              \* the committed package.json of every package directory
  tree,              \* the package.json files of the working tree
  packagePaths,      \* the working set of package directories
  versions,          \* package name -> next version
  buildLog,          \* the build stages started and the directory removal
  buildExits,        \* the exit codes of the build stages that ended
  prompts,           \* the confirmations offered to the operator
  published,         \* the npm commands run, with their outcome
  gitLog,            \* the git commands run by the reset and by commitAndPush
  gitExits,          \* the exit codes of the git commands that ended
  name,              \* a package name handed to removeExpInPackageName
  cleanName          \* what removeExpInPackageName returned for it

vars == <<pc, exitCode, dryRun, projectRoot, sha, installationsDist, head, tree,
          packagePaths, versions, buildLog, buildExits, prompts, published, gitLog,
          gitExits, name, cleanName>>

\* A faulty buildPackages: firebase-exp is built before firestore.
UmbrellaBeforeFirestore == <<"foundation", "exp-compat", "firebase-exp",
                             "firestore-prebuild", "firestore-build">>

\* The five lerna runs of buildPackages, in the order of the source.
BuildStages == <<"foundation", "exp-compat", "firestore-prebuild",
                 "firestore-build", "firebase-exp">>

\* The shell commands of commitAndPush, in the order of the source.
GitCommands == <<"add", "commit", "rev-parse", "push">>

Terminal == {"Done", "Aborted", "Exited", "Failed"}

\* The indices of PackagesExp in increasing order.
RECURSIVE Sorted(_)
Sorted(S) ==
  IF S = {} THEN <<>>
  ELSE LET m == CHOOSE x \in S : \A y \in S : x <= y IN <<m>> \o Sorted(S \ {m})

Init ==
  /\ pc = "Preparing"
  /\ exitCode = -1
  /\ dryRun \in BOOLEAN
  /\ projectRoot \in ProjectRoots
  /\ sha \in ShortShas
  /\ installationsDist \in BOOLEAN
  /\ \E S \in SUBSET DOMAIN PackagesExp :
       /\ Cardinality(S) <= MaxPkgs
       /\ \E version \in [S -> UNION {PackagesExp[i].versions : i \in S}] :
            /\ \A i \in S : version[i] \in PackagesExp[i].versions
            /\ head = [p \in {projectRoot \o PackagesExp[i].rel : i \in S}
                                \cup {projectRoot \o FirestoreDir.rel} |->
                        IF p = projectRoot \o FirestoreDir.rel
                        THEN [FirestoreDir.pkg EXCEPT
                                !.version = CHOOSE v \in FirestoreDir.versions : TRUE]
                        ELSE LET i == CHOOSE j \in S : p = projectRoot \o PackagesExp[j].rel
                             IN  [PackagesExp[i].pkg EXCEPT !.version = version[i]]]
  /\ tree = head
  /\ packagePaths = <<>>
  /\ versions = <<>>
  /\ buildLog = <<>>
  /\ buildExits = <<>>
  /\ prompts = <<>>
  /\ published = <<>>
  /\ gitLog = <<>>
  /\ gitExits = <<>>
  /\ name = <<>>
  /\ cleanName = <<>>

\* A faulty catch block: the error is logged and the process exits with 0.
FailExitsZero ==
  /\ pc' = "Failed"
  /\ exitCode' = 0

\* The catch block of publishExpPackages: process.exit(1).
Fail ==
  /\ pc' = "Failed"
  /\ exitCode' = 1

\* await prepareFirestoreForRelease(), then buildPackages starts its first run.
\* The call is modelled by its outcome only (it returns or it throws): what it
\* writes is undone by the git checkout of the reset step.
PrepareFirestoreForRelease ==
  /\ pc = "Preparing"
  /\ \/ /\ pc' = "Building"
        /\ exitCode' = exitCode
        /\ buildLog' = Append(buildLog, BuildStages[1])
     \/ /\ Fail
        /\ UNCHANGED buildLog
  /\ UNCHANGED <<gitExits, name, cleanName, buildExits, dryRun, projectRoot, sha, installationsDist, head, tree,
                 packagePaths, versions, prompts, published, gitLog>>

StagesStarted == Len(SelectSeq(buildLog, LAMBDA x : x # "rmdir"))

\* A faulty spawn: the exit code of the child is ignored.
neverRejects(code) == FALSE

\* child-process-promise spawn: the promise rejects on a non-zero exit code.
spawnRejects(code) == code # 0

\* buildPackages: a lerna run ends with an exit code. When the spawn rejects,
\* the error reaches the catch block; otherwise the next run starts,
\* packages/installations/dist being removed before the last one, and after
\* the last run the function returns.
BuildPackages ==
  /\ pc = "Building"
  /\ \E code \in {0, 1} :
       /\ buildExits' = Append(buildExits, code)
       /\ IF spawnRejects(code)
          THEN /\ Fail
               /\ UNCHANGED <<buildLog, installationsDist>>
          ELSE \/ /\ StagesStarted < Len(BuildStages) - 1
                  /\ buildLog' = Append(buildLog, BuildStages[StagesStarted + 1])
                  /\ UNCHANGED <<pc, exitCode, installationsDist>>
               \/ /\ StagesStarted = Len(BuildStages) - 1
                  /\ buildLog' = (IF installationsDist
                                  THEN Append(buildLog, "rmdir")
                                  ELSE buildLog)
                                   \o <<BuildStages[Len(BuildStages)]>>
                  /\ installationsDist' = FALSE
                  /\ UNCHANGED <<pc, exitCode>>
               \/ /\ StagesStarted = Len(BuildStages)
                  /\ pc' = "VersionPlanning"
                  /\ UNCHANGED <<exitCode, buildLog, installationsDist>>
  /\ UNCHANGED <<gitExits, name, cleanName, dryRun, projectRoot, sha, head, tree, packagePaths, versions,
                 prompts, published, gitLog>>

\* mapWorkspaceToPackages([packages-exp/*]) with packages/firestore pushed.
mapWorkspaceToPackages ==
  LET dirs == Sorted({i \in DOMAIN PackagesExp : projectRoot \o PackagesExp[i].rel \in DOMAIN tree})
  IN  [i \in DOMAIN dirs |-> projectRoot \o PackagesExp[dirs[i]].rel]
        \o <<projectRoot \o FirestoreDir.rel>>

\* updatePackageNamesAndVersions over the working set, then the version check
\* is put to the operator.
UpdatePackageNamesAndVersions ==
  /\ pc = "VersionPlanning"
  /\ packagePaths' = mapWorkspaceToPackages
  /\ versions' = planVersions(tree, packagePaths', 1, sha, <<>>)
  /\ tree' = updatePackageJsons(tree, packagePaths', versions', TRUE, TRUE, TRUE)
  /\ prompts' = Append(prompts, "versionCheck")
  /\ pc' = "AwaitingPublishConfirmation"
  /\ UNCHANGED <<gitExits, name, cleanName, buildExits, exitCode, dryRun, projectRoot, sha, installationsDist, head,
                 buildLog, published, gitLog>>

\* The operator answers the version check; no throws 'Version check failed'.
VersionCheck ==
  /\ pc = "AwaitingPublishConfirmation"
  /\ \/ /\ pc' = "Publishing"
        /\ exitCode' = exitCode
     \/ /\ pc' = "Aborted"
        /\ exitCode' = 1
  /\ UNCHANGED <<gitExits, name, cleanName, buildExits, dryRun, projectRoot, sha, installationsDist, head, tree,
                 packagePaths, versions, buildLog, prompts, published, gitLog>>

\* A faulty Listr run: the errors of the tasks are dropped.
allTasksOk(results) == TRUE

\* tasks.run() of a Listr with exitOnError: false resolves when no task has
\* failed; otherwise it rejects, after the last task, with the errors collected.
listrResolves(results) == \A i \in DOMAIN results : results[i].ok

\* packagePaths.filter(p => p.includes(FIREBASE_UMBRELLA_PACKAGE_NAME))
firebaseExpPath ==
  SelectSeq(packagePaths, LAMBDA p : Includes(p, FIREBASE_UMBRELLA_PACKAGE_NAME))

\* The Map holding the umbrella package's next version only.
firebaseExpVersion ==
  <<E(FIREBASE_UMBRELLA_PACKAGE_NAME, Get(versions, FIREBASE_UMBRELLA_PACKAGE_NAME))>>

\* publishToNpm: the Listr task of the next package runs npm publish, which
\* succeeds or fails; after the last task the run resolves or rejects, and on
\* success the reset confirmation is put to the operator.
PublishToNpm ==
  /\ pc = "Publishing"
  /\ Len(published) < Len(packagePaths)
  /\ \E ok \in BOOLEAN :
       /\ published' = Append(published,
            [cmd |-> publishPackage(packagePaths[Len(published) + 1], dryRun), ok |-> ok])
       /\ IF Len(published') < Len(packagePaths)
          THEN UNCHANGED <<pc, exitCode, prompts>>
          ELSE IF listrResolves(published')
               THEN /\ pc' = "AwaitingResetConfirmation"
                    /\ prompts' = Append(prompts, "resetWorkingTree")
                    /\ exitCode' = exitCode
               ELSE /\ Fail
                    /\ UNCHANGED prompts
  /\ UNCHANGED <<gitExits, name, cleanName, buildExits, dryRun, projectRoot, sha, installationsDist, head, tree,
                 packagePaths, versions, buildLog, gitLog>>

\* A faulty reset confirmation: after a no the version check is asked again.
ResetWorkingTreeAsksAgain ==
  /\ pc = "AwaitingResetConfirmation"
  /\ \/ /\ pc' = "Resetting"
        /\ exitCode' = exitCode
     \/ /\ pc' = "AwaitingPublishConfirmation"
        /\ exitCode' = exitCode
  /\ UNCHANGED <<gitExits, name, cleanName, buildExits, dryRun, projectRoot, sha,
                 installationsDist, head, tree, packagePaths, versions, buildLog,
                 prompts, published, gitLog>>

\* The operator answers the reset confirmation; no is process.exit(0).
ResetWorkingTree ==
  /\ pc = "AwaitingResetConfirmation"
  /\ \/ /\ pc' = "Resetting"
        /\ exitCode' = exitCode
     \/ /\ pc' = "Exited"
        /\ exitCode' = 0
  /\ UNCHANGED <<gitExits, name, cleanName, buildExits, dryRun, projectRoot, sha, installationsDist, head, tree,
                 packagePaths, versions, buildLog, prompts, published, gitLog>>

EmptyString == [kind |-> "empty", core |-> <<>>, pre |-> <<>>]

GitCommand(cmd, args, message) == [cmd |-> cmd, args |-> args, message |-> message]

\* A faulty commitAndPush: the push comes before the commit.
pushFirst(k, planned) ==
  LET order == <<1, 4, 3, 2>>
      version == Get(planned, FIREBASE_UMBRELLA_PACKAGE_NAME)
  IN  CASE order[k] = 1 -> GitCommand("add", <<"*/package.json", "yarn.lock">>, EmptyString)
        [] order[k] = 2 -> GitCommand("commit", <<"-m", "Publish firebase@exp">>,
                                      IF Truthy(version) THEN version ELSE EmptyString)
        [] order[k] = 3 -> GitCommand("rev-parse", <<"--abbrev-ref", "HEAD">>, EmptyString)
        [] order[k] = 4 -> GitCommand("push", <<"origin", "currentBranch", "--no-verify", "-u">>,
                                      EmptyString)

\* commitAndPush: its k-th shell command.
commitAndPush(k, planned) ==
  LET version == Get(planned, FIREBASE_UMBRELLA_PACKAGE_NAME)
  IN  CASE k = 1 -> GitCommand("add", <<"*/package.json", "yarn.lock">>, EmptyString)
        [] k = 2 -> GitCommand("commit", <<"-m", "Publish firebase@exp">>,
                               IF Truthy(version) THEN version ELSE EmptyString)
        [] k = 3 -> GitCommand("rev-parse", <<"--abbrev-ref", "HEAD">>, EmptyString)
        [] k = 4 -> GitCommand("push", <<"origin", "currentBranch", "--no-verify", "-u">>,
                               EmptyString)

\* A faulty dry-run guard: the commit confirmation is offered in every run.
alwaysOffered(dry) == TRUE

\* if (!dryRun): the commit confirmation is offered.
pushOffered(dry) == ~dry

\* A faulty checkout: the error of git is dropped.
checkoutAlwaysResolves(code) == FALSE

\* simple-git checkout: the promise rejects when git exits non-zero.
checkoutRejects(code) == code # 0

\* resetWorkingTreeAndBumpVersions: git checkout . and, when it succeeds, the
\* umbrella version written again; then the commit confirmation is put to the
\* operator unless this is a dry run, in which case the function returns.
ResetWorkingTreeAndBumpVersions ==
  /\ pc = "Resetting"
  /\ gitLog' = Append(gitLog, GitCommand("checkout", <<".">>, EmptyString))
  /\ \E code \in {0, 1} :
       /\ gitExits' = Append(gitExits, code)
       /\ IF checkoutRejects(code)
          THEN /\ Fail
               /\ UNCHANGED <<tree, prompts>>
          ELSE /\ tree' = updatePackageJsons(head, firebaseExpPath, firebaseExpVersion,
                                             FALSE, TRUE, FALSE)
               /\ IF pushOffered(dryRun)
                  THEN /\ prompts' = Append(prompts, "commitAndPush")
                       /\ pc' = "AwaitingPushConfirmation"
                       /\ exitCode' = exitCode
                  ELSE /\ pc' = "Done"
                       /\ exitCode' = 0
                       /\ UNCHANGED prompts
  /\ UNCHANGED <<name, cleanName, buildExits, dryRun, projectRoot, sha, installationsDist, head, packagePaths,
                 versions, buildLog, published>>

\* The operator answers the commit confirmation; no ends the function.
CommitAndPushPrompt ==
  /\ pc = "AwaitingPushConfirmation"
  /\ \/ /\ pc' = "Committing"
        /\ exitCode' = exitCode
     \/ /\ pc' = "Done"
        /\ exitCode' = 0
  /\ UNCHANGED <<gitExits, name, cleanName, buildExits, dryRun, projectRoot, sha, installationsDist, head, tree,
                 packagePaths, versions, buildLog, prompts, published, gitLog>>

\* The commands of commitAndPush run so far.
Committed == SelectSeq(gitLog, LAMBDA c : c.cmd # "checkout")

\* child-process-promise exec: the promise rejects on a non-zero exit code.
execRejects(code) == code # 0

\* commitAndPush: its next command runs; a failing command rejects the exec, a
\* successful commit records the working tree, a successful push ends the run.
CommitAndPush ==
  /\ pc = "Committing"
  /\ LET c == commitAndPush(Len(Committed) + 1, versions)
     IN  /\ gitLog' = Append(gitLog, c)
         /\ \E code \in {0, 1} :
              /\ gitExits' = Append(gitExits, code)
              /\ IF execRejects(code)
                 THEN /\ Fail
                      /\ UNCHANGED head
                 ELSE /\ head' = (IF c.cmd = "commit" THEN tree ELSE head)
                      /\ IF Len(Committed) + 1 = Len(GitCommands)
                         THEN pc' = "Done" /\ exitCode' = 0
                         ELSE UNCHANGED <<pc, exitCode>>
  /\ UNCHANGED <<name, cleanName, buildExits, dryRun, projectRoot, sha, installationsDist, tree, packagePaths,
                 versions, buildLog, prompts, published>>

Next ==
  \/ PrepareFirestoreForRelease
  \/ BuildPackages
  \/ UpdatePackageNamesAndVersions
  \/ VersionCheck
  \/ PublishToNpm
  \/ ResetWorkingTree
  \/ ResetWorkingTreeAndBumpVersions
  \/ CommitAndPushPrompt
  \/ CommitAndPush

Spec == Init /\ [][Next]_vars

\* The workflow when every external call returns and every prompt is
\* answered: an awaited step that can happen does happen.
FairSpec == Spec /\ WF_vars(Next)

----------------------------------------------------------------------------
(* removeExpInPackageName applied to arbitrary package names *)

\* Longest package name, in tokens.
MaxNameLen == 3

NameTokens == {"@firebase/", "firebase", "@x/", "app", ExpSuffix, "-compat"}

Names == UNION {[1..n -> NameTokens] : n \in 1..MaxNameLen}

NameInit ==
  /\ name \in Names
  /\ cleanName = <<>>
  /\ pc = "Idle"
  /\ exitCode = -1
  /\ dryRun = FALSE
  /\ projectRoot = <<>>
  /\ sha = TextId(<<>>)
  /\ installationsDist = FALSE
  /\ head = <<>>
  /\ tree = <<>>
  /\ packagePaths = <<>>
  /\ versions = <<>>
  /\ buildLog = <<>>
  /\ buildExits = <<>>
  /\ prompts = <<>>
  /\ published = <<>>
  /\ gitLog = <<>>
  /\ gitExits = <<>>

\* removeExpInPackageName(name) is called.
RemoveExpInPackageName ==
  /\ pc = "Idle"
  /\ cleanName = <<>>
  /\ cleanName' = removeExpInPackageName(name)
  /\ UNCHANGED <<pc, exitCode, dryRun, projectRoot, sha, installationsDist, head,
                 tree, packagePaths, versions, buildLog, buildExits, prompts,
                 published, gitLog, gitExits, name>>

NameNext == RemoveExpInPackageName

NameSpec == NameInit /\ [][NameNext]_vars

----------------------------------------------------------------------------
(* Properties *)

Has(seq, x) == \E i \in DOMAIN seq : seq[i] = x

\* The publish-mode rewrite has run and the working tree has not been reset.
Rewritten ==
  pc \in {"AwaitingPublishConfirmation", "Publishing", "AwaitingResetConfirmation",
          "Resetting", "Aborted", "Exited"}

\* git checkout and the version-only rewrite have run, nothing is committed.
ResetApplied == pc = "AwaitingPushConfirmation" \/ (pc = "Done" /\ dryRun)

\* C1: when the operator declines the version check, the workflow ends in
\* Aborted with no npm publish run and every package.json as it was when the
\* workflow started.
C1_DeclineLeavesRepositoryUntouched ==
  pc = "Aborted" => (published = <<>> /\ tree = head)

\* C2: publish failures are isolated per package: every package is attempted
\* once, in order, with its outcome recorded, and once all were attempted the
\* reset confirmation is offered, whether or not some publish failed.
C2_PublishFailuresIsolated ==
  /\ Len(published) <= Len(packagePaths)
  /\ \A i \in DOMAIN published : published[i].cmd.cwd = packagePaths[i]
  /\ (pc # "Publishing" /\ published # <<>>) =>
        (Len(published) = Len(packagePaths) /\ Has(prompts, "resetWorkingTree"))

\* C3: after the publish-mode rewrite, git checkout and the version-only
\* rewrite, every package.json is the committed one, except that the umbrella
\* package has its planned version.
C3_RewriteThenReconcileRoundTrip ==
  ResetApplied =>
    \A p \in DOMAIN tree :
      tree[p] = IF head[p].name = FIREBASE_UMBRELLA_PACKAGE_NAME
                THEN [head[p] EXCEPT
                        !.version = Get(versions, FIREBASE_UMBRELLA_PACKAGE_NAME)]
                ELSE head[p]

\* C4: in a dry run the commit confirmation is never offered, no commit or
\* push command is run and every npm publish carries --dry-run; outside a dry
\* run no npm publish carries it.
C4_DryRun ==
  /\ dryRun => /\ ~Has(prompts, "commitAndPush")
               /\ Committed = <<>>
               /\ pc # "Committing"
  /\ \A i \in DOMAIN published : Has(published[i].cmd.args, "--dry-run") <=> dryRun

\* C4 happens: a dry run has published every package and ended.
C4_Witness ==
  dryRun /\ pc = "Done" /\ published # <<>> /\ Len(published) = Len(packagePaths)

\* C5: the build is fail-fast. A build stage that exits non-zero is the last
\* one started, and then nothing is rewritten or published and the process
\* ends Failed with exit code 1; descriptors are rewritten and packages are
\* published only after all five stages have exited with 0.
C5_BuildFailFast ==
  /\ (\E i \in DOMAIN buildExits : buildExits[i] # 0) =>
        /\ pc = "Failed" /\ exitCode = 1
        /\ StagesStarted = Len(buildExits)
        /\ buildExits[Len(buildExits)] # 0
        /\ tree = head /\ versions = <<>> /\ published = <<>>
  /\ (tree # head \/ versions # <<>> \/ published # <<>>) =>
        /\ Len(buildExits) = Len(BuildStages)
        /\ \A i \in DOMAIN buildExits : buildExits[i] = 0

\* C5 happens: a build stage after the first has exited non-zero.
C5_Witness ==
  Len(buildExits) > 1 /\ buildExits[Len(buildExits)] # 0

\* No commit has been made: head is the descriptor state the run started from.
NoCommit == \A i \in DOMAIN gitLog : gitLog[i].cmd # "commit"

\* The Version Planner has run over the working set.
Planned == packagePaths # <<>> /\ NoCommit

UmbrellaPaths == {p \in Elements(packagePaths) : head[p].name = FIREBASE_UMBRELLA_PACKAGE_NAME}

\* The plan has exactly one entry for every package name of the working set.
OneEntryPerPackage ==
  /\ Len(versions) = Len(packagePaths)
  /\ \A p \in Elements(packagePaths) :
       Cardinality({i \in DOMAIN versions : versions[i].k = head[p].name}) = 1

C7_PlannedNeverOlder ==
  Planned =>
    \A p \in Elements(packagePaths) \ UmbrellaPaths :
      LET cur == head[p].version
          next == Get(versions, head[p].name)
      IN  /\ next # cur
          /\ (Valid(cur) /\ Valid(next)) => ~VersionLt(next, cur)

\* C7 amended: for every non-umbrella package the planned version is never
\* equal to the current version; when the current version is a semantic
\* version and the build id a valid prerelease identifier, the planned
\* version is a semantic version with the same major.minor.patch and a
\* prerelease tag, older in semver order than a stable current version (it is
\* a prerelease of it) and newer than a current version that is itself a
\* prerelease.
C7_PlannedIsPrerelease ==
  Planned =>
    \A p \in Elements(packagePaths) \ UmbrellaPaths :
      LET cur == head[p].version
          next == Get(versions, head[p].name)
      IN  /\ next # cur
          /\ (Valid(cur) /\ ValidId(sha)) =>
               /\ Valid(next)
               /\ next.core = cur.core
               /\ next.pre # <<>>
               /\ IF cur.pre = <<>> THEN VersionLt(next, cur) ELSE VersionLt(cur, next)

\* C7 happens: the plan holds a non-umbrella package at a stable version and
\* one at a prerelease version.
C7_Witness ==
  /\ Planned
  /\ \E p, q \in Elements(packagePaths) \ UmbrellaPaths :
       /\ Valid(head[p].version) /\ head[p].version.pre = <<>>
       /\ Valid(head[q].version) /\ head[q].version.pre # <<>>

\* C8: the publish-mode rewrite strips -exp from every package's own name and
\* from every key of its dependencies and peerDependencies, also for names
\* without the word firebase; firebase-exp at 1.2.3 becomes firebase at 1.2.4
\* and public, and @x/a-exp becomes @x/a at its planned version with its
\* dependency keyed @x/b at the planned version of @x/b-exp.
C8_SuffixStrippedFromEveryName ==
  Rewritten =>
    \A p \in Elements(packagePaths) :
      /\ tree[p].name = removeExpAnywhere(head[p].name)
      /\ tree[p].version = Get(versions, head[p].name)
      /\ ~tree[p].private
      /\ \A t \in {"dependencies", "peerDependencies"} :
           Keys(tree[p][t]) = {removeExpAnywhere(k) : k \in Keys(head[p][t])}
      /\ (head[p].name = FIREBASE_UMBRELLA_PACKAGE_NAME /\ head[p].version = Version(1, 2, 3)) =>
            (tree[p].name = <<"firebase">> /\ tree[p].version = Version(1, 2, 4))
      /\ (head[p].name = XA /\ XB \in Keys(versions)) =>
            /\ tree[p].name = <<"@x/", "a">>
            /\ tree[p].dependencies = <<E(<<"@x/", "b">>, Get(versions, XB))>>

\* C9: when some package of the working set has a current version that is not
\* a semantic version, the Version Planner fails before any descriptor is
\* rewritten and the plan has no entry for that package.
C9_InvalidVersionRejected ==
  \A p \in DOMAIN head :
    (NoCommit /\ ~Valid(head[p].version)) =>
      /\ tree = head
      /\ head[p].name \notin Keys(versions)
      /\ pc \in {"Preparing", "Building", "VersionPlanning", "Failed"}

LastCommand == gitLog[Len(gitLog)].cmd
LastExit == gitExits[Len(gitExits)]

ExitCodes ==
  /\ pc = "Exited" =>
       /\ exitCode = 0
       /\ gitLog = <<>>
       /\ ~Has(prompts, "commitAndPush")
       /\ \A p \in Elements(packagePaths) :
            /\ ~tree[p].private
            /\ tree[p].version = Get(versions, head[p].name)
            /\ tree[p].name = removeExpInPackageName(head[p].name)
  /\ pc \in {"Failed", "Aborted"} => exitCode = 1
  /\ pc = "Aborted" => prompts[Len(prompts)] = "versionCheck"
  /\ pc = "Done" => exitCode = 0
  /\ pc \notin Terminal => exitCode = -1

\* C12: declining the reset confirmation ends the process with exit code 0
\* and leaves the rewritten descriptors as they are (no checkout, no version
\* re-apply, no commit confirmation); every caught error, the declined version
\* check included, ends it with exit code 1; normal completion exits 0; and
\* no step of the workflow runs after a terminal state.
C12_ExitCodes == []ExitCodes /\ [][pc \notin Terminal]_vars

\* C12 happens: the operator declined the reset confirmation.
C12_Witness == pc = "Exited" /\ Len(packagePaths) > 1


\* C13: a failed git checkout is fatal: the umbrella version is not
\* re-applied and no descriptor is written after the failure (the tree stays
\* as the publish-mode rewrite left it), no further git command runs, the
\* commit confirmation is never offered, and the workflow ends Failed with
\* exit code 1.
C13_FailedResetIsFatal ==
  (gitExits # <<>> /\ gitExits[1] # 0) =>
    /\ gitLog[1].cmd = "checkout"
    /\ Len(gitLog) = 1
    /\ pc = "Failed"
    /\ exitCode = 1
    /\ ~Has(prompts, "commitAndPush")
    /\ \A p \in Elements(packagePaths) :
         /\ ~tree[p].private
         /\ tree[p].version = Get(versions, head[p].name)
         /\ tree[p].name = removeExpInPackageName(head[p].name)

\* C13 happens: every package was published and the checkout then failed.
C13_Witness ==
  /\ gitExits = <<1>>
  /\ Len(published) = Len(packagePaths)
  /\ UmbrellaPaths # {}


\* C14: removeExpInPackageName returns unchanged every package name that
\* does not contain -exp.
C14_StripIsIdentityWithoutSuffix ==
  (cleanName # <<>> /\ ~Has(name, ExpSuffix)) => cleanName = name

\* C14 happens: a name with the word firebase and another suffix, but without
\* -exp, was handed to removeExpInPackageName.
C14_Witness ==
  /\ cleanName # <<>>
  /\ ~Has(name, ExpSuffix)
  /\ name[1] \in FirebaseTokens
  /\ name[Len(name)] = "-compat"


DepTypes == {"dependencies", "peerDependencies"}

\* C15: in the publish-mode rewrite, the rewritten entry of every key d of
\* dependencies and peerDependencies has the version the plan holds for d
\* (looked up by the original name) when the plan has an entry for d, and the
\* declared range otherwise.
C15_DependencyVersionsFromPlan ==
  Rewritten =>
    \A p \in Elements(packagePaths) : \A t \in DepTypes :
      \A i \in DOMAIN head[p][t] :
        LET d == head[p][t][i].k
        IN  Get(tree[p][t], removeExpInPackageName(d)) =
              IF d \in Keys(versions) THEN Get(versions, d) ELSE head[p][t][i].v


\* C16: no rewrite, publish-mode or version-only, changes a key or a value of
\* devDependencies: every package.json has the devDependencies it had before.
C16_DevDependenciesUntouched ==
  \A p \in DOMAIN tree : tree[p].devDependencies = head[p].devDependencies

\* C16 happens: the publish-mode rewrite has rewritten the dependencies of a
\* package whose devDependencies hold a planned package with -exp in its name.
C16_Witness ==
  /\ Rewritten
  /\ \E p \in Elements(packagePaths) :
       \E i \in DOMAIN head[p].devDependencies :
         /\ head[p].devDependencies[i].k \in Keys(versions)
         /\ Has(head[p].devDependencies[i].k, ExpSuffix)
         /\ tree[p].dependencies # head[p].dependencies


\* The build stages started, without the directory removal.
Started == SelectSeq(buildLog, LAMBDA x : x # "rmdir")

\* C17: the build stages start one after another in the order foundation
\* packages, *-exp and *-compat packages, firestore prebuild, firestore build,
\* firebase-exp, each only after the previous one has exited with 0; and
\* packages/installations/dist, when present, is removed after the firestore
\* build has ended and before the firebase-exp build starts.
C17_BuildOrder ==
  LET order == <<"foundation", "exp-compat", "firestore-prebuild",
                 "firestore-build", "firebase-exp">>
  IN  /\ Len(Started) <= Len(order)
      /\ \A k \in DOMAIN Started : Started[k] = order[k]
      /\ Len(buildExits) <= Len(Started)
      /\ Len(Started) <= Len(buildExits) + 1
      /\ \A k \in DOMAIN buildExits : k < Len(Started) => buildExits[k] = 0
      /\ \A k \in DOMAIN buildLog :
           buildLog[k] = "rmdir" =>
             /\ k > 1 /\ buildLog[k - 1] = "firestore-build"
             /\ k < Len(buildLog) /\ buildLog[k + 1] = "firebase-exp"
             /\ Len(buildExits) >= 4
      /\ Has(buildLog, "firebase-exp") => ~installationsDist
      /\ (installationsDist /\ buildLog # <<>>) => ~Has(buildLog, "rmdir")

\* C17 happens: all five stages have run and the stale directory was removed.
C17_Witness ==
  /\ pc = "VersionPlanning"
  /\ Has(buildLog, "rmdir")
  /\ Len(buildExits) = Len(BuildStages)


\* The states of the workflow in the order of publishExpPackages.
StateOrder == <<"Preparing", "Building", "VersionPlanning",
                "AwaitingPublishConfirmation", "Publishing",
                "AwaitingResetConfirmation", "Resetting",
                "AwaitingPushConfirmation", "Committing">>

Position(state) ==
  IF state \in Terminal THEN Len(StateOrder) + 1
  ELSE CHOOSE k \in DOMAIN StateOrder : StateOrder[k] = state

\* C18: when every external call returns and every prompt is answered, every
\* run reaches a terminal state (Done, Aborted, Exited or Failed); no step
\* leaves a terminal state, Failed included, and no step goes back to an
\* earlier state of the workflow.
C18_Terminates ==
  /\ <>(pc \in Terminal)
  /\ [][pc \notin Terminal /\ Position(pc') >= Position(pc)]_vars

\* C18 happens: a run has gone through every gate and ended Failed at the push.
C18_Witness ==
  /\ pc = "Failed"
  /\ Len(gitLog) = Len(GitCommands) + 1


\* C19: every package.json written by a version-updating rewrite has a defined
\* version, the one the versions Map passed to the rewrite holds for its name;
\* the version-only rewrite after git checkout changes only package.json files
\* of the package named firebase-exp and leaves no package.json without a
\* version.
C19_RewriteGivesDefinedVersion ==
  /\ Rewritten =>
       \A p \in Elements(packagePaths) :
         /\ tree[p].version = Get(versions, head[p].name)
         /\ tree[p].version # Undefined
  /\ ResetApplied =>
       \A p \in DOMAIN tree :
         /\ tree[p].version # Undefined
         /\ tree[p] # head[p] => head[p].name = FIREBASE_UMBRELLA_PACKAGE_NAME

\* C20: the publish-mode rewrite loses no dependency: the rewritten
\* dependencies and peerDependencies of every package have as many entries
\* as the original ones, also when two original keys differ only by -exp.
C20_NoDependencyLost ==
  Rewritten =>
    \A p \in Elements(packagePaths) : \A t \in DepTypes :
      Len(tree[p][t]) = Len(head[p][t])

====
